---- MODULE Spec2Model ----
\* A model of cPath (src/Mobs/Path.cpp): the A* path finder of one mob, its
\* cell cache, its open list, the background Step task started by the
\* constructor, the polling caller (GetResultAsync) and the destructor.
EXTENDS Integers, Naturals, Sequences, FiniteSets, TLC

\* ------------------------------------------------------------------ bounds
\* The world is a box of loaded chunks: x in 0..MaxX, y in -1..MaxY,
\* z in 0..MaxZ.  Every coordinate outside the box lies in a chunk that is
\* not valid.
MaxX == 5
MaxY == 2
MaxZ == 1
\* Step budgets (a_MaxSteps) the callers pass: 0..MaxBudget.
MaxBudget == 2

\* ------------------------------------------------------- program constants
CALCULATIONS_PER_STEP == 5
OrthCost == 10
DiagCost == 14

\* -------------------------------------------------------------- the world
Xs == 0..MaxX
Ys == (-1)..MaxY
Zs == 0..MaxZ
Cells == {<<x, y, z>> : x \in Xs, y \in Ys, z \in Zs}

Null == <<>>

Add(l, d) == <<l[1] + d[1], l[2] + d[2], l[3] + d[3]>>
Up(l) == Add(l, <<0, 1, 0>>)
Down(l) == Add(l, <<0, -1, 0>>)

\* Chunk == nullptr or !Chunk->IsValid()
ChunkValid(l) == l \in Cells

\* The worlds the search is run in: the block GetBlockTypeMeta reports at
\* each coordinate of a valid chunk.
Worlds == {"Flat", "Wall", "Gap", "Step", "Hole", "Fence", "Water"}

Floor(l) == l[2] = -1

BlockAt(w, l) ==
    CASE w = "Flat"  -> IF Floor(l) THEN "STONE" ELSE "AIR"
      [] w = "Wall"  -> IF Floor(l) \/ l[1] = 2 THEN "STONE" ELSE "AIR"
      [] w = "Gap"   -> IF Floor(l) \/ (l[1] = 2 /\ l[3] = 0) THEN "STONE" ELSE "AIR"
      [] w = "Step"  -> IF \/ Floor(l)
                           \/ (l[2] = 0 /\ l[1] = 2 /\ l[3] = 0)
                           \/ (l[2] = 0 /\ l[1] = 3 /\ l[3] = 1)
                        THEN "STONE" ELSE "AIR"
      [] w = "Hole"  -> IF Floor(l) /\ ~(l[1] = 2 /\ l[3] = 0) THEN "STONE" ELSE "AIR"
      [] w = "Fence" -> IF Floor(l) THEN "STONE"
                        ELSE IF l[1] = 2 /\ l[2] = 0 THEN "FENCE"
                        ELSE IF l[1] = 2 /\ l[2] = 1 /\ l[3] = 1 THEN "FENCE"
                        ELSE "AIR"
      [] w = "Water" -> IF Floor(l) THEN "STONE"
                        ELSE IF l[1] = 3 /\ l[2] = 0 /\ l[3] = 0 THEN "FENCE"
                        ELSE IF l[2] = 1 /\ l[3] = 0 /\ l[1] \in {0, 3} THEN "WATER"
                        ELSE IF l[1] = 3 /\ l[2] = 2 /\ l[3] = 0 THEN "WATER"
                        ELSE "AIR"

PlainWorlds == {"Flat", "Wall", "Gap", "Step", "Hole"}

\* cBlockInfo::IsSolid
BlockIsSolid(b) == b \in {"STONE", "FENCE"}

\* The start points the callers pass (the mob is in the column x = 0, z = 0)
\* and the end points (anywhere in the box).
StartPoints == {l \in Cells : l[1] = 0 /\ l[3] = 0}
EndPoints == Cells
Budgets == 0..MaxBudget

\* ---------------------------------------------------------------- state
VARIABLES
    world,          \* the world m_Chunk belongs to
    a_Start,        \* a_StartingPoint
    a_End,          \* a_EndingPoint
    a_MaxSteps,     \* a_MaxSteps
    main,           \* the owner of the instance: "new", "alive", "destroyed"
    m_Status,       \* ePathFinderStatus, "UNSET" before the constructor sets it
    m_StepsLeft,
    m_Map,          \* the cell cache: location -> cPathCell
    m_OpenList,     \* the cells held by the priority queue
    m_PathPoints,
    m_AsyncResult,  \* the future: "no_state", "pending", "ready"
    bg,             \* position of the background Step: "none", "loop", "popped", "return", "done", "crashed"
    Step,           \* the loop counter of cPath::Step
    CurrentCell,    \* the local of StepOnce
    pollRet,        \* what the last GetResultAsync returned ("NONE": not called yet)
    pollSaw,        \* m_Status when the last GetResultAsync was called
    nStepOnce,      \* calls of StepOnce
    nNew,           \* cells created with new
    nDelete,        \* cells deleted
    dtorFreed,      \* the destructor has run FinishCalculation()
    uaf             \* the background task has used a deleted cell

vars == <<world, a_Start, a_End, a_MaxSteps, main, m_Status, m_StepsLeft, m_Map,
          m_OpenList, m_PathPoints, m_AsyncResult, bg, Step, CurrentCell,
          pollRet, pollSaw, nStepOnce, nNew, nDelete, dtorFreed, uaf>>

inputs == <<world, a_Start, a_End, a_MaxSteps>>

Terminal == {"PATH_FOUND", "PATH_NOT_FOUND"}

\* ------------------------------------------------------------ the cache
\* new cPathCell(): value-initialised, so every field is zero; the zero of
\* eCellStatus is OPENLIST.  Two history fields are kept with each cell:
\* oracle counts the calls of IsSolid for the cell's location, handed holds
\* what the cache recorded each time ProcessIfWalkable passed the cell to
\* ProcessCell.
NewCell == [isSolid |-> FALSE, status |-> "OPENLIST", F |-> 0, G |-> 0, H |-> 0,
            parent |-> Null, oracle |-> 0, handed |-> {}]

EmptyMap == [l \in {} |-> NewCell]

\* Statement sequencing: v is computed once, then Rest runs on its value.
Then(v, Rest(_)) == CHOOSE r \in {Rest(t) : t \in {v}} : TRUE

RECURSIVE GetCell(_, _)
RECURSIVE IsSolid(_, _)

\* cPath::IsSolid: the new cache and the returned value.
IsSolid(m, l) ==
    IF ~ChunkValid(l)
    THEN [map |-> [m EXCEPT ![l].oracle = @ + 1], ret |-> TRUE]
    ELSE LET b == BlockAt(world, l)
         IN Then(IF b = "FENCE"
                 THEN [GetCell([m EXCEPT ![l].oracle = @ + 1], Up(l))
                          EXCEPT ![Up(l)].isSolid = TRUE]
                 ELSE [m EXCEPT ![l].oracle = @ + 1],
                 LAMBDA m1 :
                   [map |-> IF b = "WATER"
                            THEN [GetCell(m1, Down(l)) EXCEPT ![Down(l)].isSolid = TRUE]
                            ELSE m1,
                    ret |-> BlockIsSolid(b)])

\* cPath::GetCell: the cache after the call; the returned cell is [l] of it.
GetCell(m, l) ==
    IF l \in DOMAIN m
    THEN m
    ELSE Then(IsSolid(m @@ (l :> NewCell), l),
              LAMBDA r : [r.map EXCEPT ![l].isSolid = r.ret, ![l].status = "NOLIST"])

\* (a_Cell->m_Location - m_Destination).Length() * 10, cast to int
SqDist(a, b) == (a[1] - b[1]) * (a[1] - b[1]) + (a[2] - b[2]) * (a[2] - b[2])
                + (a[3] - b[3]) * (a[3] - b[3])

Abs(n) == IF n < 0 THEN -n ELSE n

Heuristic(l, dest) ==
    LET n == 100 * SqDist(l, dest)
        hi == 10 * (Abs(l[1] - dest[1]) + Abs(l[2] - dest[2]) + Abs(l[3] - dest[3]))
    IN CHOOSE r \in 0..hi : r * r <= n /\ (r + 1) * (r + 1) > n

\* ---------------------------------------------------------- the open list
\* The order of compareHeuristics reversed: top() is a cell of greatest m_F.
IsTop_GreatestF(m, open, c) == c \in open /\ \A d \in open : m[c].F >= m[d].F

\* compareHeuristics orders the queue by m_F, so top() is a cell of least m_F.
IsTop(m, open, c) == c \in open /\ \A d \in open : m[c].F <= m[d].F

\* cPath::OpenListAdd
OpenListAdd(s, l) ==
    [map |-> [s.map EXCEPT ![l].status = "OPENLIST"], open |-> s.open \cup {l}]

\* ProcessCell whose case 3 leaves m_Parent as it is.
ProcessCell_KeepParent(s, l, caller, gDelta) ==
    LET c == s.map[l]
    IN IF c.status = "CLOSEDLIST" THEN s
       ELSE IF c.status = "NOLIST"
       THEN LET g == IF caller # Null THEN s.map[caller].G + gDelta ELSE 0
                h == Heuristic(l, a_End)
            IN OpenListAdd([s EXCEPT !.map[l].parent = caller, !.map[l].G = g,
                                     !.map[l].H = h, !.map[l].F = h + g], l)
       ELSE LET NewG == s.map[caller].G + gDelta
            IN IF NewG < c.G
               THEN [s EXCEPT !.map[l].G = NewG, !.map[l].H = c.F + NewG]
               ELSE s

\* ProcessCell whose case 3 takes the new m_G without comparing it.
ProcessCell_NoCompare(s, l, caller, gDelta) ==
    LET c == s.map[l]
    IN IF c.status = "CLOSEDLIST" THEN s
       ELSE IF c.status = "NOLIST"
       THEN LET g == IF caller # Null THEN s.map[caller].G + gDelta ELSE 0
                h == Heuristic(l, a_End)
            IN OpenListAdd([s EXCEPT !.map[l].parent = caller, !.map[l].G = g,
                                     !.map[l].H = h, !.map[l].F = h + g], l)
       ELSE LET NewG == s.map[caller].G + gDelta
            IN [s EXCEPT !.map[l].G = NewG, !.map[l].H = c.F + NewG,
                         !.map[l].parent = caller]

\* ProcessCell without its case 1: a cell of the closed list is handled like
\* a cell of the open list.
ProcessCell_RelaxClosed(s, l, caller, gDelta) ==
    LET c == s.map[l]
    IN IF c.status = "NOLIST"
       THEN LET g == IF caller # Null THEN s.map[caller].G + gDelta ELSE 0
                h == Heuristic(l, a_End)
            IN OpenListAdd([s EXCEPT !.map[l].parent = caller, !.map[l].G = g,
                                     !.map[l].H = h, !.map[l].F = h + g], l)
       ELSE LET NewG == s.map[caller].G + gDelta
            IN IF NewG < c.G
               THEN [s EXCEPT !.map[l].G = NewG, !.map[l].H = c.F + NewG,
                              !.map[l].parent = caller]
               ELSE s

\* cPath::ProcessCell on the search state s = [map, open]
ProcessCell(s, l, caller, gDelta) ==
    LET c == s.map[l]
    IN IF c.status = "CLOSEDLIST" THEN s
       ELSE IF c.status = "NOLIST"
       THEN LET g == IF caller # Null THEN s.map[caller].G + gDelta ELSE 0
                h == Heuristic(l, a_End)
            IN OpenListAdd([s EXCEPT !.map[l].parent = caller, !.map[l].G = g,
                                     !.map[l].H = h, !.map[l].F = h + g], l)
       ELSE LET NewG == s.map[caller].G + gDelta
            IN IF NewG < c.G
               THEN [s EXCEPT !.map[l].G = NewG, !.map[l].H = c.F + NewG,
                              !.map[l].parent = caller]
               ELSE s

\* ProcessIfWalkable without the test of the floor below the cell.
ProcessIfWalkable_NoFloor(s, l, parent, cost) ==
    Then(GetCell(s.map, l), LAMBDA m1 :
      IF m1[l].isSolid THEN [s EXCEPT !.map = m1]
      ELSE Then(GetCell(m1, Up(l)), LAMBDA m3 :
        IF m3[Up(l)].isSolid THEN [s EXCEPT !.map = m3]
        ELSE ProcessCell([s EXCEPT !.map = m3], l, parent, cost)))

\* The two cells a diagonal step from parent to l passes between, at the
\* height of parent; no cell for a step along one axis.
Flanks(parent, l) ==
    IF parent[1] # l[1] /\ parent[3] # l[3]
    THEN {<<l[1], parent[2], parent[3]>>, <<parent[1], parent[2], l[3]>>}
    ELSE {}

\* What the cache m records when l is passed to ProcessCell by the
\* expansion of parent.
Handover(m, l, parent) ==
    [self   |-> m[l].isSolid,
     below  |-> m[Down(l)].isSolid,
     above  |-> m[Up(l)].isSolid,
     from   |-> parent,
     flanks |-> {m[f].isSolid : f \in Flanks(parent, l)},
     floors |-> {m[Down(f)].isSolid : f \in Flanks(parent, l)}]

\* ProcessIfWalkable whose headroom test asks IsSolid for the cell above
\* instead of reading the cached cell.
ProcessIfWalkable_AsksAgain(s, l, parent, cost) ==
    Then(GetCell(s.map, l), LAMBDA m1 :
      IF m1[l].isSolid THEN [s EXCEPT !.map = m1]
      ELSE Then(GetCell(m1, Down(l)), LAMBDA m2 :
        IF ~m2[Down(l)].isSolid THEN [s EXCEPT !.map = m2]
        ELSE Then(IsSolid(GetCell(m2, Up(l)), Up(l)), LAMBDA r :
          IF r.ret THEN [s EXCEPT !.map = r.map]
          ELSE ProcessCell([s EXCEPT !.map =
                               [r.map EXCEPT ![l].handed = @ \cup {Handover(r.map, l, parent)}]],
                           l, parent, cost))))

\* cPath::ProcessIfWalkable
ProcessIfWalkable(s, l, parent, cost) ==
    Then(GetCell(s.map, l), LAMBDA m1 :
      IF m1[l].isSolid THEN [s EXCEPT !.map = m1]
      ELSE Then(GetCell(m1, Down(l)), LAMBDA m2 :
        IF ~m2[Down(l)].isSolid THEN [s EXCEPT !.map = m2]
        ELSE Then(GetCell(m2, Up(l)), LAMBDA m3 :
          IF m3[Up(l)].isSolid THEN [s EXCEPT !.map = m3]
          ELSE ProcessCell([s EXCEPT !.map =
                               [m3 EXCEPT ![l].handed = @ \cup {Handover(m3, l, parent)}]],
                           l, parent, cost))))

\* -------------------------------------------------------------- StepOnce
\* The goal test taken as "the popped cell is the goal".
GoalAdjacent_GoalItself(dest) == {dest}

\* The five locations at which StepOnce declares the path found.
GoalAdjacent(dest) ==
    {Add(dest, <<0, 0, 1>>), Add(dest, <<1, 0, 0>>), Add(dest, <<-1, 0, 0>>),
     Add(dest, <<0, 0, -1>>), Add(dest, <<0, -1, 0>>)}

\* The walk along m_Parent that stops one cell early: the cell without
\* parent is not pushed.
RECURSIVE ParentChain_StopEarly(_, _)
ParentChain_StopEarly(m, c) ==
    IF m[c].parent = Null THEN <<>> ELSE <<c>> \o ParentChain_StopEarly(m, m[c].parent)

\* do { m_PathPoints.push_back(...); CurrentCell = CurrentCell->m_Parent; } while (...)
RECURSIVE ParentChain(_, _)
ParentChain(m, c) ==
    IF m[c].parent = Null THEN <<c>> ELSE <<c>> \o ParentChain(m, m[c].parent)

\* The neighbours of the first loop of StepOnce, in the order of the calls.
OrthOffsets ==
    << <<1, -1, 0>>, <<-1, -1, 0>>, <<0, -1, 1>>, <<0, -1, -1>>,
       <<1, 0, 0>>,  <<-1, 0, 0>>,  <<0, 0, 1>>,  <<0, 0, -1>>,
       <<1, 1, 0>>,  <<-1, 1, 0>>,  <<0, 1, 1>>,  <<0, 1, -1>> >>

\* The (x, z) pairs of the second loop of StepOnce, in the order of the loop.
DiagOffsets == << <<-1, -1>>, <<-1, 1>>, <<1, -1>>, <<1, 1>> >>

RECURSIVE ProcessOrthogonals(_, _, _)
ProcessOrthogonals(s, cur, i) ==
    IF i > Len(OrthOffsets) THEN s
    ELSE LET Rest(t) == ProcessOrthogonals(t, cur, i + 1)
         IN Then(ProcessIfWalkable(s, Add(cur, OrthOffsets[i]), cur, OrthCost), Rest)

\* One iteration of the diagonal loop without the sharp-turn test (the floor
\* below the two flanking cells is not looked at).
ProcessDiagonal_NoSharpTurnTest(s, cur, x, z) ==
    LET sideX == Add(cur, <<x, 0, 0>>)
        sideZ == Add(cur, <<0, 0, z>>)
    IN Then(GetCell(s.map, sideX), LAMBDA m1 :
         IF m1[sideX].isSolid THEN [s EXCEPT !.map = m1]
         ELSE Then(GetCell(m1, sideZ), LAMBDA m2 :
           IF m2[sideZ].isSolid THEN [s EXCEPT !.map = m2]
           ELSE Then([s EXCEPT !.map = m2], LAMBDA s4 :
                  ProcessIfWalkable(s4, Add(cur, <<x, 0, z>>), cur, DiagCost))))

\* One iteration of the diagonal loop: the corner-cutting test, the
\* sharp-turn test, then ProcessIfWalkable.
ProcessDiagonal(s, cur, x, z) ==
    LET sideX == Add(cur, <<x, 0, 0>>)
        sideZ == Add(cur, <<0, 0, z>>)
    IN Then(GetCell(s.map, sideX), LAMBDA m1 :
         IF m1[sideX].isSolid THEN [s EXCEPT !.map = m1]
         ELSE Then(GetCell(m1, sideZ), LAMBDA m2 :
           IF m2[sideZ].isSolid THEN [s EXCEPT !.map = m2]
           ELSE Then(GetCell(m2, Down(sideX)), LAMBDA m3 :
             IF ~m3[Down(sideX)].isSolid THEN [s EXCEPT !.map = m3]
             ELSE Then(GetCell(m3, Down(sideZ)), LAMBDA m4 :
               IF ~m4[Down(sideZ)].isSolid THEN [s EXCEPT !.map = m4]
               ELSE Then([s EXCEPT !.map = m4], LAMBDA s4 :
                      ProcessIfWalkable(s4, Add(cur, <<x, 0, z>>), cur, DiagCost))))))

RECURSIVE ProcessDiagonals(_, _, _)
ProcessDiagonals(s, cur, i) ==
    IF i > Len(DiagOffsets) THEN s
    ELSE LET Rest(t) == ProcessDiagonals(t, cur, i + 1)
         IN Then(ProcessDiagonal(s, cur, DiagOffsets[i][1], DiagOffsets[i][2]), Rest)

\* The neighbour processing of StepOnce for the popped cell cur.
Expand(s, cur) ==
    LET Rest(t) == ProcessDiagonals(t, cur, 1)
    IN Then(ProcessOrthogonals(s, cur, 1), Rest)

\* ---------------------------------------------------------------- actions
Init ==
    /\ world \in Worlds
    /\ a_Start \in StartPoints
    /\ a_End \in EndPoints
    /\ a_MaxSteps \in Budgets
    /\ main = "new"
    /\ m_Status = "UNSET"
    /\ m_StepsLeft = 0
    /\ m_Map = EmptyMap
    /\ m_OpenList = {}
    /\ m_PathPoints = <<>>
    /\ m_AsyncResult = [state |-> "no_state", value |-> "UNSET"]
    /\ bg = "none"
    /\ Step = 0
    /\ CurrentCell = Null
    /\ pollRet = "NONE"
    /\ pollSaw = "NONE"
    /\ nStepOnce = 0
    /\ nNew = 0
    /\ nDelete = 0
    /\ dtorFreed = FALSE
    /\ uaf = FALSE

\* cPath::cPath, the early return: m_Status = PATH_NOT_FOUND with the cache m.
ConstructAbort(m) ==
    /\ m_Status' = "PATH_NOT_FOUND"
    /\ m_Map' = m
    /\ nNew' = Cardinality(DOMAIN m)
    /\ UNCHANGED <<m_StepsLeft, m_OpenList, m_AsyncResult, bg, Step>>

\* cPath::cPath after the test of the two end points: the start cell is
\* processed and Step is handed to std::async.
ConstructLaunch(m) ==
    \E s \in {ProcessCell([map |-> GetCell(m, a_Start), open |-> {}], a_Start, Null, 0)} :
        /\ m_Status' = "CALCULATING"
        /\ m_StepsLeft' = a_MaxSteps
        /\ m_Map' = s.map
        /\ m_OpenList' = s.open
        /\ nNew' = Cardinality(DOMAIN s.map)
        /\ m_AsyncResult' = [state |-> "pending", value |-> "UNSET"]
        /\ bg' = "loop"
        /\ Step' = 1

\* cPath::cPath
Construct ==
    /\ main = "new"
    /\ main' = "alive"
    /\ \E m1 \in {GetCell(m_Map, a_Start)} :
          IF m1[a_Start].isSolid
          THEN ConstructAbort(m1)
          ELSE \E m2 \in {GetCell(m1, a_End)} :
                  IF m2[a_End].isSolid
                  THEN ConstructAbort(m2)
                  ELSE ConstructLaunch(m2)
    /\ UNCHANGED <<inputs, m_PathPoints, CurrentCell, pollRet, pollSaw, nStepOnce,
                   nDelete, dtorFreed, uaf>>

\* cPath::FinishCalculation(): every cell of the cache is deleted, the cache
\* and the open list are emptied.
FinishCalculation ==
    /\ nDelete' = nDelete + Cardinality(DOMAIN m_Map)
    /\ m_Map' = EmptyMap
    /\ m_OpenList' = {}

\* cPath::Step, the loop condition holds; StepOnce up to the return of
\* OpenListPop.
StepOncePop ==
    /\ bg = "loop"
    /\ Step # CALCULATIONS_PER_STEP * m_StepsLeft
    /\ nStepOnce' = nStepOnce + 1
    /\ IF m_OpenList = {}
       THEN /\ m_Status' = "PATH_NOT_FOUND"
            /\ FinishCalculation
            /\ bg' = "return"
            /\ UNCHANGED CurrentCell
       ELSE /\ \E c \in m_OpenList :
                 /\ IsTop(m_Map, m_OpenList, c)
                 /\ CurrentCell' = c
                 /\ m_OpenList' = m_OpenList \ {c}
                 /\ m_Map' = [m_Map EXCEPT ![c].status = "CLOSEDLIST"]
            /\ bg' = "popped"
            /\ UNCHANGED <<m_Status, nDelete>>
    /\ UNCHANGED <<inputs, main, m_StepsLeft, m_PathPoints, m_AsyncResult, Step,
                   pollRet, pollSaw, nNew, dtorFreed, uaf>>

\* StepOnce after OpenListPop returned a cell: the goal test and the
\* neighbours; then ++Step of cPath::Step.
StepOnceExpand ==
    /\ bg = "popped"
    /\ CurrentCell \in DOMAIN m_Map
    /\ IF CurrentCell \in GoalAdjacent(a_End)
       THEN /\ m_PathPoints' = m_PathPoints \o ParentChain(m_Map, CurrentCell)
            /\ m_Status' = "PATH_FOUND"
            /\ FinishCalculation
            /\ bg' = "return"
            /\ UNCHANGED <<Step, nNew>>
       ELSE /\ \E s \in {Expand([map |-> m_Map, open |-> m_OpenList], CurrentCell)} :
                  /\ m_Map' = s.map
                  /\ m_OpenList' = s.open
                  /\ nNew' = nNew + Cardinality(DOMAIN s.map) - Cardinality(DOMAIN m_Map)
            /\ Step' = Step + 1
            /\ bg' = "loop"
            /\ UNCHANGED <<m_PathPoints, m_Status, nDelete>>
    /\ UNCHANGED <<inputs, main, m_StepsLeft, m_AsyncResult, CurrentCell,
                   pollRet, pollSaw, nStepOnce, dtorFreed, uaf>>

\* cPath::Step, the loop condition fails: FinishCalculation(PATH_NOT_FOUND).
StepCap ==
    /\ bg = "loop"
    /\ Step = CALCULATIONS_PER_STEP * m_StepsLeft
    /\ m_Status' = "PATH_NOT_FOUND"
    /\ FinishCalculation
    /\ bg' = "return"
    /\ UNCHANGED <<inputs, main, m_StepsLeft, m_PathPoints, m_AsyncResult, Step,
                   CurrentCell, pollRet, pollSaw, nStepOnce, nNew, dtorFreed, uaf>>

\* Step returning without its result ever reaching the future.
StepReturn_NeverReady ==
    /\ bg = "return"
    /\ bg' = "done"
    /\ UNCHANGED <<inputs, main, m_Status, m_StepsLeft, m_Map, m_OpenList,
                   m_PathPoints, m_AsyncResult, Step, CurrentCell, pollRet, pollSaw,
                   nStepOnce, nNew, nDelete, dtorFreed, uaf>>

\* cPath::Step, return m_Status: the future becomes ready.
StepReturn ==
    /\ bg = "return"
    /\ bg' = "done"
    /\ m_AsyncResult' = [state |-> "ready", value |-> m_Status]
    /\ UNCHANGED <<inputs, main, m_Status, m_StepsLeft, m_Map, m_OpenList,
                   m_PathPoints, Step, CurrentCell, pollRet, pollSaw, nStepOnce,
                   nNew, nDelete, dtorFreed, uaf>>

\* What wait_for can do on a future without shared state (undefined
\* behaviour): throw future_error, or return any status.
PollOutcomes == {"ERROR", "CALCULATING", "PATH_FOUND", "PATH_NOT_FOUND"}

\* cPath::GetResultAsync
GetResultAsync ==
    /\ main = "alive"
    /\ pollSaw' = m_Status
    /\ CASE m_AsyncResult.state = "ready" ->
              /\ pollRet' = m_AsyncResult.value
              /\ m_AsyncResult' = [state |-> "no_state", value |-> "UNSET"]
         [] m_AsyncResult.state = "pending" ->
              /\ pollRet' = "CALCULATING"
              /\ UNCHANGED m_AsyncResult
         [] m_AsyncResult.state = "no_state" ->
              /\ pollRet' \in PollOutcomes
              /\ UNCHANGED m_AsyncResult
    /\ UNCHANGED <<inputs, main, m_Status, m_StepsLeft, m_Map, m_OpenList,
                   m_PathPoints, bg, Step, CurrentCell, nStepOnce, nNew, nDelete,
                   dtorFreed, uaf>>

Next == Construct \/ StepOncePop \/ StepOnceExpand \/ StepCap \/ StepReturn
        \/ GetResultAsync

Spec == Init /\ [][Next]_vars

TypeOK ==
    /\ m_Status \in {"UNSET", "CALCULATING", "PATH_FOUND", "PATH_NOT_FOUND"}
    /\ m_OpenList \subseteq DOMAIN m_Map
    /\ bg \in {"none", "loop", "popped", "return", "done", "crashed"}

\* ------------------------------------------------------- the destructor
\* cPath::~cPath: the body runs FinishCalculation() when m_Status is still
\* CALCULATING; the members (the future among them) are destroyed after it.
Destructor ==
    /\ main = "alive"
    /\ main' = "destroyed"
    /\ IF m_Status = "CALCULATING"
       THEN FinishCalculation /\ dtorFreed' = TRUE
       ELSE UNCHANGED <<nDelete, m_Map, m_OpenList, dtorFreed>>
    /\ UNCHANGED <<inputs, m_Status, m_StepsLeft, m_PathPoints, m_AsyncResult, bg,
                   Step, CurrentCell, pollRet, pollSaw, nStepOnce, nNew, uaf>>

\* StepOnce after OpenListPop when the popped cell has been deleted under it:
\* CurrentCell->m_Location reads freed memory (undefined behaviour).  The
\* task crashes, or the garbage passes the goal test, or it fails the test
\* and no neighbour is admitted.
StepOnceDangling ==
    /\ bg = "popped"
    /\ CurrentCell \notin DOMAIN m_Map
    /\ uaf' = TRUE
    /\ \/ /\ bg' = "crashed"
          /\ UNCHANGED <<m_PathPoints, m_Status, m_Map, m_OpenList, nDelete, Step>>
       \/ /\ m_PathPoints' = m_PathPoints \o <<CurrentCell>>
          /\ m_Status' = "PATH_FOUND"
          /\ FinishCalculation
          /\ bg' = "return"
          /\ UNCHANGED Step
       \/ /\ Step' = Step + 1
          /\ bg' = "loop"
          /\ UNCHANGED <<m_PathPoints, m_Status, m_Map, m_OpenList, nDelete>>
    /\ UNCHANGED <<inputs, main, m_StepsLeft, m_AsyncResult, CurrentCell,
                   pollRet, pollSaw, nStepOnce, nNew, dtorFreed>>

NextDestroy == Next \/ Destructor \/ StepOnceDangling

\* The instance together with its destruction at any moment.
SpecDestroy == Init /\ [][NextDestroy]_vars

\* The background task is scheduled until Step returns, and the caller keeps
\* polling.
BgStep == StepOncePop \/ StepOnceExpand \/ StepCap \/ StepReturn

\* The searches of a mob standing at (0,0,0) towards the end points on the
\* floor of the z = 0 plane.
InitFair == Init /\ a_Start = <<0, 0, 0>> /\ a_End[2] = 0 /\ a_End[3] = 0

FairSpec ==
    InitFair /\ [][Next]_vars
    /\ WF_vars(Construct) /\ WF_vars(BgStep) /\ WF_vars(GetResultAsync)

\* ----------------------------------------------------------------- claims
\* The step loop of cPath::Step ended because the loop condition failed.
CapHit == bg \in {"return", "done"} /\ Step = CALCULATIONS_PER_STEP * m_StepsLeft

\* C1: once the search is PATH_FOUND or PATH_NOT_FOUND, every call of
\* GetResultAsync returns that status.
C1_PollReturnsTerminal ==
    (pollRet # "NONE" /\ pollSaw \in Terminal) => pollRet = pollSaw

CachedNonSolid(l) == l \in DOMAIN m_Map /\ ~m_Map[l].isSolid

\* C2: right after construction the search is CALCULATING with the background
\* Step launched iff the start cell and the goal cell are non-solid in the
\* cache; otherwise it is PATH_NOT_FOUND, nothing is on the open list and no
\* Step is ever launched.
C2_CalculatingIffEndpointsNonSolid ==
    /\ (main = "alive" /\ nStepOnce = 0 /\ bg \in {"none", "loop"}) =>
          /\ (m_Status = "CALCULATING" /\ bg = "loop")
                <=> (CachedNonSolid(a_Start) /\ CachedNonSolid(a_End))
          /\ m_Status # "CALCULATING" =>
                (m_Status = "PATH_NOT_FOUND" /\ m_OpenList = {} /\ bg = "none")
    /\ (main # "new" /\ bg = "none") => (m_OpenList = {} /\ nStepOnce = 0)

\* C3: a search with step budget b calls StepOnce at most
\* CALCULATIONS_PER_STEP * b times.
C3_StepOnceWithinBudget == nStepOnce <= CALCULATIONS_PER_STEP * a_MaxSteps

\* C4: the destructor frees no cell and does not reset the open list before
\* the background Step has returned, and the background Step never uses a
\* deleted cell.
C4_NoFreeWhileStepRuns == (dtorFreed => bg = "done") /\ ~uaf

\* C5: in a terminal state, and after destruction, the cache and the open
\* list are empty and every cell created has been deleted.
C5_TerminalMeansReleased ==
    (m_Status \in Terminal \/ main = "destroyed") =>
        (DOMAIN m_Map = {} /\ m_OpenList = {} /\ nDelete = nNew)

\* ------------------------------------------- the moves StepOnce can make
\* The solidity GetCell caches for a coordinate of a world without fences
\* and water.
SolidAt(w, l) == ~ChunkValid(l) \/ BlockIsSolid(BlockAt(w, l))

\* The test of ProcessIfWalkable.
WalkableAt(w, l) == ~SolidAt(w, l) /\ SolidAt(w, Down(l)) /\ ~SolidAt(w, Up(l))

\* The cells ProcessCell is called for when c is expanded, with their cost.
MovesFrom(w, c) ==
    {[to |-> Add(c, OrthOffsets[i]), cost |-> OrthCost] :
        i \in {j \in DOMAIN OrthOffsets : WalkableAt(w, Add(c, OrthOffsets[j]))}}
    \cup
    {[to |-> Add(c, <<DiagOffsets[i][1], 0, DiagOffsets[i][2]>>), cost |-> DiagCost] :
        i \in {j \in DOMAIN DiagOffsets :
                 LET sideX == Add(c, <<DiagOffsets[j][1], 0, 0>>)
                     sideZ == Add(c, <<0, 0, DiagOffsets[j][2]>>)
                 IN /\ ~SolidAt(w, sideX) /\ ~SolidAt(w, sideZ)
                    /\ SolidAt(w, Down(sideX)) /\ SolidAt(w, Down(sideZ))
                    /\ WalkableAt(w, Add(c, <<DiagOffsets[j][1], 0, DiagOffsets[j][2]>>))}}

SetMin(S) == CHOOSE n \in S : \A k \in S : n <= k

\* Least cost of a sequence of moves from the cells of dist (a function from
\* the cells reached so far to their cost) to every cell: one more round.
RelaxAll(w, dist) ==
    LET reached == DOMAIN dist
        next == reached \cup {mv.to : mv \in UNION {MovesFrom(w, c) : c \in reached}}
    IN [n \in next |->
          SetMin((IF n \in reached THEN {dist[n]} ELSE {})
                 \cup UNION {{dist[c] + mv.cost : mv \in {x \in MovesFrom(w, c) : x.to = n}} :
                             c \in reached})]

RECURSIVE LeastCosts(_, _)
LeastCosts(w, dist) ==
    LET nd == RelaxAll(w, dist)
    IN IF nd = dist THEN dist ELSE LeastCosts(w, nd)

\* For every plain world and start point: the cells reachable by moves, each
\* with the least cost of reaching it.
LeastCostFrom ==
    [w \in PlainWorlds, st \in StartPoints |-> LeastCosts(w, (st :> 0))]

ReachableGoalCells == GoalAdjacent(a_End) \cap DOMAIN LeastCostFrom[world, a_Start]

\* 10 per orthogonal step, 14 per diagonal step of a point sequence.
IsDiagonal(a, b) == a[1] # b[1] /\ a[3] # b[3]

RECURSIVE PathCost(_)
PathCost(p) ==
    IF Len(p) <= 1 THEN 0
    ELSE (IF IsDiagonal(p[1], p[2]) THEN DiagCost ELSE OrthCost) + PathCost(Tail(p))

\* One move of StepOnce: an orthogonal step with a vertical change of at
\* most 1, or a diagonal step at the same height.
AdmissibleMove(a, b) ==
    LET dx == Abs(a[1] - b[1])
        dy == Abs(a[2] - b[2])
        dz == Abs(a[3] - b[3])
    IN \/ (dx + dz = 1 /\ dy <= 1)
       \/ (dx = 1 /\ dz = 1 /\ dy = 0)

\* C6: a found path is not empty, starts at a goal-adjacent cell, ends at the
\* start point, repeats no coordinate, and consecutive points are one move
\* apart.
C6_PathShape ==
    m_Status = "PATH_FOUND" =>
        /\ Len(m_PathPoints) >= 1
        /\ m_PathPoints[1] \in GoalAdjacent(a_End)
        /\ m_PathPoints[Len(m_PathPoints)] = a_Start
        /\ \A i, j \in DOMAIN m_PathPoints : m_PathPoints[i] = m_PathPoints[j] => i = j
        /\ \A i \in 1..(Len(m_PathPoints) - 1) :
              AdmissibleMove(m_PathPoints[i + 1], m_PathPoints[i])

\* A found path with a climb, a descent or a diagonal step in it.
C6_Witness ==
    /\ m_Status = "PATH_FOUND"
    /\ bg = "done"
    /\ Len(m_PathPoints) >= 4
    /\ \E i \in 1..(Len(m_PathPoints) - 1) : IsDiagonal(m_PathPoints[i], m_PathPoints[i + 1])
    /\ \E i \in 1..(Len(m_PathPoints) - 1) : m_PathPoints[i][2] # m_PathPoints[i + 1][2]

\* C7: with DISTANCE_MANHATTAN = 0 and HEURISTICS_ONLY = 0 a found path has
\* the least cost among the move sequences from the start to a goal-adjacent
\* cell.
C7_PathIsShortest ==
    (m_Status = "PATH_FOUND" /\ world \in PlainWorlds) =>
        PathCost(m_PathPoints)
            = SetMin({LeastCostFrom[world, a_Start][c] : c \in ReachableGoalCells})

\* The flat-floor scenario: start (0,0,0), goal (5,0,0), a budget whose cap
\* allows the five calls of StepOnce the search needs, Step has returned.
FlatScenario ==
    /\ world = "Flat"
    /\ a_Start = <<0, 0, 0>>
    /\ a_End = <<5, 0, 0>>
    /\ CALCULATIONS_PER_STEP * a_MaxSteps > 5
    /\ bg = "done"

\* C8 as stated: the flat-floor search ends PATH_FOUND with 6 waypoints, x
\* increasing from start to goal, and cost 50.
C8_SixWaypointsCost50 ==
    FlatScenario =>
        /\ m_Status = "PATH_FOUND"
        /\ Len(m_PathPoints) = 6
        /\ \A i \in 1..(Len(m_PathPoints) - 1) :
              m_PathPoints[i + 1][1] < m_PathPoints[i][1]
        /\ PathCost(m_PathPoints) = 50

\* C8 amended: the flat-floor search ends PATH_FOUND with the 5 waypoints
\* (4,0,0), (3,0,0), (2,0,0), (1,0,0), (0,0,0), emitted from the goal-adjacent
\* cell back to the start (x increasing from start to goal), and cost 40.
C8_FiveWaypointsCost40 ==
    FlatScenario =>
        /\ m_Status = "PATH_FOUND"
        /\ Len(m_PathPoints) = 5
        /\ \A i \in 1..Len(m_PathPoints) : m_PathPoints[i] = <<5 - i, 0, 0>>
        /\ PathCost(m_PathPoints) = 40

C8_Witness == FlatScenario /\ m_Status = "PATH_FOUND" /\ pollRet = "PATH_FOUND"

\* C9: in a world of plain blocks, a search whose step loop did not hit the
\* cap ends PATH_FOUND iff a goal-adjacent cell is reachable from the start by
\* moves; otherwise it ends PATH_NOT_FOUND after popping every reachable cell
\* and finding the open list empty.
C9_FoundIffReachable ==
    (world \in PlainWorlds /\ bg \in {"return", "done"} /\ ~CapHit) =>
        /\ (m_Status = "PATH_FOUND") <=> (ReachableGoalCells # {})
        /\ ReachableGoalCells = {} =>
              /\ m_Status = "PATH_NOT_FOUND"
              /\ nStepOnce = Cardinality(DOMAIN LeastCostFrom[world, a_Start]) + 1

\* A search stopped by the full-height wall: the goal lies behind it.
C9_Witness ==
    /\ world = "Wall"
    /\ a_End[1] > 2
    /\ bg = "done"
    /\ ~CapHit
    /\ m_Status = "PATH_NOT_FOUND"
    /\ nStepOnce > 2

CachedFence(l) == l \in DOMAIN m_Map /\ ChunkValid(l) /\ BlockAt(world, l) = "FENCE"

\* C11: whenever the cell of a fence block is in the cache, the cell directly
\* above it is in the cache with isSolid = TRUE, whichever of the two
\* coordinates was requested first.
C11_CellAboveFenceIsSolid ==
    \A l \in DOMAIN m_Map :
        CachedFence(l) => (Up(l) \in DOMAIN m_Map /\ m_Map[Up(l)].isSolid)

\* C12: every cell ProcessIfWalkable passed to ProcessCell was, at that
\* moment, recorded in the cache as non-solid, with the cell below it
\* recorded solid and the cell above it recorded non-solid.
C12_HandedOverCellsAreWalkable ==
    \A l \in DOMAIN m_Map :
        \A h \in m_Map[l].handed : ~h.self /\ h.below /\ ~h.above

\* C13: a cell that GetCell has returned (every cell of the cache has been)
\* keeps its isSolid: no later step of the search changes the isSolid of a
\* cell that is already in the cache.
C13_IsSolidIsFixed ==
    [][\A l \in (DOMAIN m_Map) \cap (DOMAIN m_Map') :
           m_Map'[l].isSolid = m_Map[l].isSolid]_vars

\* ------------------------------------------------------ diagonal steps
\* The step from a to b passes between two cells whose blocks are not solid
\* and that both stand on a solid block.
DiagonalStepClear(w, a, b) ==
    \A f \in Flanks(a, b) : ~SolidAt(w, f) /\ SolidAt(w, Down(f))

\* C14: a diagonal neighbour is passed to ProcessCell only when the cache
\* records both flanking cells as non-solid and both cells below them as
\* solid, and a found path has no diagonal step past a solid corner or over
\* a missing floor.
C14_DiagonalsAreClear ==
    /\ \A l \in DOMAIN m_Map :
          \A h \in m_Map[l].handed :
              Flanks(h.from, l) # {} => (h.flanks = {FALSE} /\ h.floors = {TRUE})
    /\ m_Status = "PATH_FOUND" =>
          \A i \in 1..(Len(m_PathPoints) - 1) :
              DiagonalStepClear(world, m_PathPoints[i + 1], m_PathPoints[i])

\* (1,0,0) beside the hole in the floor has been expanded: its diagonal
\* neighbour (0,0,1) was passed to ProcessCell, the diagonal neighbour
\* (2,0,1) past the hole was not.
C14_Witness ==
    /\ world = "Hole"
    /\ a_Start = <<0, 0, 0>>
    /\ bg = "loop"
    /\ <<1, 0, 0>> \in DOMAIN m_Map
    /\ m_Map[<<1, 0, 0>>].status = "CLOSEDLIST"
    /\ \E h \in m_Map[<<1, 0, 1>>].handed : h.from = <<0, 0, 0>>
    /\ <<2, 0, 1>> \in DOMAIN m_Map
    /\ \A h \in m_Map[<<2, 0, 1>>].handed : h.from # <<1, 0, 0>>

\* ------------------------------------------------ the fields of the cells
\* eCellStatus in the order a cell passes through it.
StatusRank(st) == CASE st = "NOLIST" -> 0 [] st = "OPENLIST" -> 1 [] st = "CLOSEDLIST" -> 2

\* The cells that are in the cache before and after a step.
KeptCells == (DOMAIN m_Map) \cap (DOMAIN m_Map')

\* C15: over every step of a search the status of a cached cell stays or
\* moves forward in NOLIST -> OPENLIST -> CLOSEDLIST, and a cell of the
\* closed list keeps its m_G and m_Parent.
C15_StatusMovesForward ==
    [][\A l \in KeptCells :
          /\ StatusRank(m_Map'[l].status) >= StatusRank(m_Map[l].status)
          /\ m_Map[l].status = "CLOSEDLIST" =>
                (m_Map'[l].G = m_Map[l].G /\ m_Map'[l].parent = m_Map[l].parent)]_vars

\* A cell of the closed list has been passed to ProcessCell again by the
\* expansion of a cell it is the parent of, while another cell is open.
C15_Witness ==
    /\ bg = "loop"
    /\ \E l \in DOMAIN m_Map, p \in DOMAIN m_Map :
          /\ m_Map[l].status = "CLOSEDLIST"
          /\ m_Map[p].status = "CLOSEDLIST"
          /\ m_Map[p].parent = l
          /\ \E h \in m_Map[l].handed : h.from = p
    /\ m_OpenList # {}

\* a_GDelta of the call StepOnce makes for the neighbour b of a.
MoveCost(a, b) == IF IsDiagonal(a, b) THEN DiagCost ELSE OrthCost

\* C16: once a cell has been given its m_G (it is open or closed), a step
\* leaves the m_G unchanged or replaces it with the strictly smaller m_G of
\* the expanded cell plus the cost of the move.
C16_GNeverIncreases ==
    [][\A l \in KeptCells :
          m_Map[l].status # "NOLIST" =>
              \/ m_Map'[l].G = m_Map[l].G
              \/ /\ m_Map'[l].G < m_Map[l].G
                 /\ m_Map'[l].G = m_Map[CurrentCell].G + MoveCost(CurrentCell, l)]_vars

\* A cell whose m_G is below the m_G it was pushed with (its m_F minus the
\* heuristic), and another cell that was passed to ProcessCell a second
\* time and kept its m_G.
C16_Witness ==
    /\ bg = "loop"
    /\ \E l \in DOMAIN m_Map :
          /\ m_Map[l].status # "NOLIST"
          /\ m_Map[l].G < m_Map[l].F - Heuristic(l, a_End)
    /\ \E l \in DOMAIN m_Map :
          /\ m_Map[l].status = "OPENLIST"
          /\ Cardinality(m_Map[l].handed) >= 2
          /\ m_Map[l].G = m_Map[l].F - Heuristic(l, a_End)

\* C17: every open or closed cell has m_H equal to the heuristic distance of
\* the cell to the goal and m_F = m_G + m_H.
C17_FIsGPlusH ==
    \A l \in DOMAIN m_Map :
        m_Map[l].status # "NOLIST" =>
            /\ m_Map[l].H = Heuristic(l, a_End)
            /\ m_Map[l].F = m_Map[l].G + m_Map[l].H

\* ---------------------------------------------------------- OpenListPop
\* The cells whose m_Status is OPENLIST.
OpenCells == {l \in DOMAIN m_Map : m_Map[l].status = "OPENLIST"}

\* The step is a call of OpenListPop (the first part of StepOnce).
PopStep == bg = "loop" /\ nStepOnce' = nStepOnce + 1

\* C18: the queue holds exactly the cells whose status is OPENLIST and the
\* m_F of a queued cell is never changed; a call of OpenListPop with no open
\* cell returns no cell (the search ends with PATH_NOT_FOUND), any other call
\* takes an open cell whose m_F is at most the m_F of every open cell out of
\* the queue and marks it CLOSEDLIST.
C18_PopTakesLeastF ==
    [][/\ m_OpenList' = OpenCells'
       /\ \A l \in m_OpenList \cap m_OpenList' : m_Map'[l].F = m_Map[l].F
       /\ PopStep =>
            IF OpenCells = {}
            THEN bg' = "return" /\ m_Status' = "PATH_NOT_FOUND"
            ELSE /\ bg' = "popped"
                 /\ CurrentCell' \in OpenCells
                 /\ \A d \in OpenCells : m_Map[CurrentCell'].F <= m_Map[d].F
                 /\ m_Map'[CurrentCell'].status = "CLOSEDLIST"
                 /\ OpenCells' = OpenCells \ {CurrentCell'}]_vars

\* OpenListPop has returned a cell while two cells of different m_F stay
\* open, one of them relaxed since it was pushed (its m_G is below m_F minus
\* the heuristic).
C18_Witness ==
    /\ bg = "popped"
    /\ CurrentCell \in DOMAIN m_Map
    /\ \E a \in OpenCells, b \in OpenCells :
          /\ m_Map[a].F < m_Map[b].F
          /\ m_Map[CurrentCell].F <= m_Map[a].F
          /\ m_Map[a].G < m_Map[a].F - Heuristic(a, a_End)

\* ------------------------------------------------------- the parent links
\* Following m_Parent from c arrives at the start point within n links.
RECURSIVE ReachesStart(_, _, _)
ReachesStart(m, c, n) ==
    IF c = a_Start THEN TRUE
    ELSE IF n = 0 \/ c \notin DOMAIN m \/ m[c].parent = Null THEN FALSE
    ELSE ReachesStart(m, m[c].parent, n - 1)

\* C19: the start cell, once open or closed, has no parent and m_G = 0;
\* every other open or closed cell has a parent that is on the closed list,
\* its m_G is the parent's m_G plus the cost of the move (10 or 14), and its
\* parent links lead to the start point.
C19_ParentsLeadToStart ==
    \A l \in DOMAIN m_Map :
        m_Map[l].status # "NOLIST" =>
            IF l = a_Start
            THEN m_Map[l].parent = Null /\ m_Map[l].G = 0
            ELSE /\ m_Map[l].parent # Null
                 /\ m_Map[l].parent \in DOMAIN m_Map
                 /\ m_Map[m_Map[l].parent].status = "CLOSEDLIST"
                 /\ m_Map[l].G = m_Map[m_Map[l].parent].G + MoveCost(m_Map[l].parent, l)
                 /\ ReachesStart(m_Map, l, Cardinality(DOMAIN m_Map))

\* A cell that was relaxed (its m_G is below the m_G it was pushed with, so
\* its parent was replaced) and lies at least three links from the start.
C19_Witness ==
    /\ bg = "loop"
    /\ \E l \in DOMAIN m_Map :
          /\ m_Map[l].status # "NOLIST"
          /\ m_Map[l].G < m_Map[l].F - Heuristic(l, a_End)
          /\ ~ReachesStart(m_Map, l, 2)

\* ------------------------------------------------- the calls of IsSolid
\* C20: IsSolid has been called exactly once for every coordinate the cache
\* holds a cell for (the coordinates requested through GetCell), also where
\* the fence and water branches of IsSolid call GetCell again, and the cells
\* allocated and not yet deleted are one per coordinate of the cache.
C20_OneOracleCallPerCell ==
    /\ \A l \in DOMAIN m_Map : m_Map[l].oracle = 1
    /\ nNew - nDelete = Cardinality(DOMAIN m_Map)

\* The constructor has requested the upper of two water cells stacked on a
\* fence: the three cells are cached through calls of GetCell from within
\* IsSolid, the fence branch finding the cell above it already in the cache.
C20_Witness ==
    /\ world = "Water"
    /\ a_End = <<3, 2, 0>>
    /\ m_Status = "CALCULATING"
    /\ nStepOnce = 0
    /\ {<<3, 2, 0>>, <<3, 1, 0>>, <<3, 0, 0>>} \subseteq DOMAIN m_Map
    /\ <<3, 3, 0>> \notin DOMAIN m_Map

====
